---- MODULE Spec2Model ----
(***************************************************************************)
(* Model of the msuso component scripts: navigation.js (MsuNavbar,         *)
(* MsuFooter, the theme flag kept in localStorage and on the document      *)
(* root) and card.js (MsuBadge, MsuCard, the data-theme MutationObserver). *)
(*                                                                         *)
(* Strings the code only compares are TLA+ strings.  Strings the code      *)
(* takes apart (hrefs, colors, badge texts) are sequences of one-character *)
(* strings.  A value that may be null is a record [present, value].        *)
(***************************************************************************)
EXTENDS Integers, Sequences, FiniteSets, TLC

\* ------------------------------------------------------------------ bounds

\* Badge elements the page may hold.
MaxBadges == 2
\* Mutation records that may be queued before the observer callback runs.
MaxRecords == 2
\* Delayed drawer closes that may be pending at once.
MaxTimers == 2
\* Entries a page may supply in a page-links attribute.
MaxPageLinks == 2
\* Entries in each badge list of a card.
MaxCardBadges == 2

\* ----------------------------------------------------------- null / strings

None == [present |-> FALSE, value |-> ""]
Some(v) == [present |-> TRUE, value |-> v]
NoneSeq == [present |-> FALSE, value |-> <<>>]

\* JavaScript truthiness of a nullable string.
Truthy(x) == x.present /\ x.value # ""
TruthySeq(x) == x.present /\ x.value # <<>>

Min(a, b) == IF a < b THEN a ELSE b

\* String.prototype.startsWith.
StartsWith(s, p) == Len(s) >= Len(p) /\ SubSeq(s, 1, Len(p)) = p

\* String.prototype.includes.
Includes(s, p) ==
    \E i \in 0..(Len(s) - Len(p)) : SubSeq(s, i + 1, i + Len(p)) = p

\* String.prototype.substring(start, end) for 0 <= start <= end.
Substring(s, start, end) == SubSeq(s, Min(start, Len(s)) + 1, Min(end, Len(s)))

\* String.prototype.replace(c, '') with a one-character string pattern: the
\* first occurrence is removed.
RemoveFirst(s, c) ==
    IF \E i \in 1..Len(s) : s[i] = c
    THEN LET i == CHOOSE k \in 1..Len(s) : s[k] = c /\ \A j \in 1..(k - 1) : s[j] # c
         IN  SubSeq(s, 1, i - 1) \o SubSeq(s, i + 1, Len(s))
    ELSE s

DecDigits == <<"0", "1", "2", "3", "4", "5", "6", "7", "8", "9">>
HexLower == <<"0", "1", "2", "3", "4", "5", "6", "7", "8", "9",
              "a", "b", "c", "d", "e", "f">>
HexUpper == <<"0", "1", "2", "3", "4", "5", "6", "7", "8", "9",
              "A", "B", "C", "D", "E", "F">>

IsDigit(c) == \E i \in 1..10 : DecDigits[i] = c
IsHexDigit(c) == \E i \in 1..16 : HexLower[i] = c \/ HexUpper[i] = c
HexValue(c) == (CHOOSE i \in 1..16 : HexLower[i] = c \/ HexUpper[i] = c) - 1

\* Number.prototype.toString for a natural number.
RECURSIVE NatToString(_)
NatToString(n) ==
    IF n < 10 THEN <<DecDigits[n + 1]>>
    ELSE NatToString(n \div 10) \o <<DecDigits[(n % 10) + 1]>>

\* A JavaScript number that parseInt can give: NaN or an integer.
NaN == [nan |-> TRUE, n |-> 0]
Num(n) == [nan |-> FALSE, n |-> n]

\* Template interpolation of a number.
NumberToString(x) ==
    IF x.nan THEN <<"N", "a", "N">>
    ELSE IF x.n < 0 THEN <<"-">> \o NatToString(-x.n)
    ELSE NatToString(x.n)

\* Length of the longest prefix of s made of hexadecimal digits.
RECURSIVE HexPrefixLen(_)
HexPrefixLen(s) ==
    IF s # <<>> /\ IsHexDigit(s[1]) THEN 1 + HexPrefixLen(Tail(s)) ELSE 0

RECURSIVE HexToNat(_, _)
HexToNat(s, acc) ==
    IF s = <<>> THEN acc ELSE HexToNat(Tail(s), acc * 16 + HexValue(s[1]))

RECURSIVE TrimStart(_)
TrimStart(s) == IF s # <<>> /\ s[1] = " " THEN TrimStart(Tail(s)) ELSE s

\* parseInt(s, 16): leading white space is skipped, a sign and a 0x prefix
\* are accepted, the longest run of hexadecimal digits is the value; NaN
\* when that run is empty.
ParseIntHex(str) ==
    LET t == TrimStart(str)
        neg == t # <<>> /\ t[1] = "-"
        u == IF t # <<>> /\ (t[1] = "-" \/ t[1] = "+") THEN Tail(t) ELSE t
        v == IF Len(u) >= 2 /\ u[1] = "0" /\ (u[2] = "x" \/ u[2] = "X")
             THEN SubSeq(u, 3, Len(u)) ELSE u
        k == HexPrefixLen(v)
    IN  IF k = 0 THEN NaN
        ELSE LET m == HexToNat(SubSeq(v, 1, k), 0)
             IN  Num(IF neg THEN -m ELSE m)

\* color.match(/\d+/g): the maximal runs of decimal digits, in order.
RECURSIVE DigitRuns(_, _, _)
DigitRuns(s, cur, acc) ==
    IF s = <<>> THEN (IF cur = <<>> THEN acc ELSE Append(acc, cur))
    ELSE IF IsDigit(s[1]) THEN DigitRuns(Tail(s), Append(cur, s[1]), acc)
    ELSE DigitRuns(Tail(s), <<>>, IF cur = <<>> THEN acc ELSE Append(acc, cur))

\* ------------------------------------------------------------ card.js: badge

\* Character sequences of the color literals used below.
Str_hash == <<"#">>
Str_rgb == <<"r", "g", "b">>

\* A CSS value is a sequence of text pieces; its text is their concatenation.
Css(piece) == <<piece>>

\* MsuBadge.addAlpha(color, alpha); alpha is the text of the number.
AddAlpha(color, alpha) ==
    IF StartsWith(color, Str_hash)
    THEN LET hex == RemoveFirst(color, "#")
             r == ParseIntHex(Substring(hex, 0, 2))
             g == ParseIntHex(Substring(hex, 2, 4))
             b == ParseIntHex(Substring(hex, 4, 6))
         IN  <<"rgba(">> \o NumberToString(r) \o <<", ">> \o NumberToString(g)
                 \o <<", ">> \o NumberToString(b) \o <<", ", alpha, ")">>
    ELSE IF StartsWith(color, Str_rgb)
              /\ Len(DigitRuns(color, <<>>, <<>>)) >= 3
    THEN LET match == DigitRuns(color, <<>>, <<>>)
         IN  <<"rgba(">> \o match[1] \o <<", ">> \o match[2]
                 \o <<", ">> \o match[3] \o <<", ", alpha, ")">>
    ELSE color

\* MsuBadge.getCustomColorStyles(color, isDarkTheme).
GetCustomColorStyles(color, isDarkTheme) ==
    IF isDarkTheme
    THEN [backgroundProp |-> "background",
          background |-> <<"linear-gradient(90deg, ">> \o AddAlpha(color, "0.3")
                            \o <<", ">> \o AddAlpha(color, "0.2") \o <<")">>,
          color |-> Css("#ffffff"),
          border |-> <<"1px solid ">> \o AddAlpha(color, "0.1")]
    ELSE [backgroundProp |-> "background-color",
          background |-> AddAlpha(color, "0.1"),
          color |-> color,
          border |-> <<"1px solid ">> \o AddAlpha(color, "0.2")]

\* The preset branches of MsuBadge.getBadgeStyles.
PurpleStyles(isDarkTheme) ==
    IF isDarkTheme
    THEN [backgroundProp |-> "background",
          background |-> Css("linear-gradient(90deg, rgba(109,40,217,0.28), rgba(159,122,234,0.28))"),
          color |-> Css("#ffffff"),
          border |-> Css("1px solid rgba(159,122,234,0.08)")]
    ELSE [backgroundProp |-> "background-color",
          background |-> Css("#f3e8ff"),
          color |-> Css("#6d28d9"),
          border |-> Css("1px solid rgba(109,40,217,0.28)")]

OrangeStyles(isDarkTheme) ==
    IF isDarkTheme
    THEN [backgroundProp |-> "background",
          background |-> Css("linear-gradient(90deg, rgba(180,83,9,0.28), rgba(245,158,11,0.28))"),
          color |-> Css("#ffffff"),
          border |-> Css("1px solid rgba(245,158,11,0.08)")]
    ELSE [backgroundProp |-> "background-color",
          background |-> Css("#fff7ed"),
          color |-> Css("#b45309"),
          border |-> Css("1px solid rgba(180,83,9,0.28)")]

DefaultStyles(isDarkTheme) ==
    IF isDarkTheme
    THEN [backgroundProp |-> "background-color",
          background |-> Css("#1a2622"),
          color |-> Css("#4ade80"),
          border |-> Css("none")]
    ELSE [backgroundProp |-> "background-color",
          background |-> Css("#dcfce7"),
          color |-> Css("#1a9659"),
          border |-> Css("none")]

\* A plausible slip: the variant is looked at before the custom color.
GetBadgeStylesVariantFirst(variant, customColor, isDarkTheme) ==
    IF variant = Some("purple") THEN PurpleStyles(isDarkTheme)
    ELSE IF variant = Some("orange") THEN OrangeStyles(isDarkTheme)
    ELSE IF TruthySeq(customColor)
    THEN GetCustomColorStyles(customColor.value, isDarkTheme)
    ELSE DefaultStyles(isDarkTheme)

\* MsuBadge.getBadgeStyles(variant, customColor, isDarkTheme): the
\* declarations added to the base .badge rule.
GetBadgeStyles(variant, customColor, isDarkTheme) ==
    IF TruthySeq(customColor)
    THEN GetCustomColorStyles(customColor.value, isDarkTheme)
    ELSE IF variant = Some("purple") THEN PurpleStyles(isDarkTheme)
    ELSE IF variant = Some("orange") THEN OrangeStyles(isDarkTheme)
    ELSE DefaultStyles(isDarkTheme)

\* The style before the first render: the shadow root is empty.
NoStyles ==
    [backgroundProp |-> "", background |-> <<>>, color |-> <<>>, border |-> <<>>]

\* ---------------------------------------------------------------- the state

VARIABLES
    storedTheme,      \* localStorage item 'theme' (nullable string)
    dataTheme,        \* data-theme attribute of document.documentElement
    observing,        \* card.js has run: elements defined, observer watching
    records,          \* mutation records queued for the observer callback
    badges,           \* the msu-badge elements, by index
    navAttr,          \* page-links attribute of the msu-navbar
    navState,         \* "created", "connected", or "threw"
    desktopLinks,     \* links in ul.navbar-nav, in order
    mobileLinks,      \* links in ul.mobile-menu-nav, in order
    listeners,        \* attachEventListeners has completed
    themeIcon, themeText, mobileThemeIcon, mobileThemeText,
    mobileMenuOpen, overlayActive, menuActive,
    bodyOverflow,     \* document.body.style.overflow
    timers,           \* ids of the pending setTimeout(closeMobileMenu, 150) callbacks
    footAttr,         \* page-links attribute of the msu-footer
    footState,        \* "created", "connected", or "threw"
    quickLinks,       \* links in the footer's Quick Links list, in order
    cardAttrs,        \* attributes of the msu-card
    cardState,        \* "created", "rendered", or "threw" (the last render)
    cardHtml,         \* what the last completed render put in innerHTML
    hist              \* history: the flag and styles before the last toggles

themeVars == <<storedTheme, dataTheme, observing, records, badges>>
buttonVars == <<themeIcon, themeText, mobileThemeIcon, mobileThemeText>>
drawerVars == <<mobileMenuOpen, overlayActive, menuActive, bodyOverflow, timers>>
navVars == <<navAttr, navState, desktopLinks, mobileLinks, listeners>>
footVars == <<footAttr, footState, quickLinks>>

cardVars == <<cardAttrs, cardState, cardHtml>>

vars == <<themeVars, buttonVars, drawerVars, navVars, footVars, cardVars, hist>>

\* ----------------------------------------------- card.js: badge element

\* MsuBadge.render: isDarkTheme is read from the document root at render time.
IsDarkTheme(theme) == theme = Some("dark")

\* A plausible slip: the observer callback leaves the badges as they are.
RenderAllBadgesSkipped(bs, theme) == bs

\* document.querySelectorAll('msu-badge').forEach(badge => badge.render()).
RenderAllBadges(bs, theme) ==
    [i \in DOMAIN bs |->
        IF bs[i].mounted
        THEN [bs[i] EXCEPT !.styles =
                 GetBadgeStyles(bs[i].variant, bs[i].color, IsDarkTheme(theme))]
        ELSE bs[i]]

UnmountedBadge ==
    [mounted |-> FALSE, variant |-> None, color |-> NoneSeq, styles |-> NoStyles]

\* card.js runs: the elements are defined and the observer starts watching
\* the data-theme attribute of the document root.
LoadCardScript ==
    /\ ~observing
    /\ observing' = TRUE
    /\ hist' = <<>>
    /\ UNCHANGED cardVars
    /\ UNCHANGED <<storedTheme, dataTheme, records, badges>>
    /\ UNCHANGED <<buttonVars, drawerVars, navVars, footVars>>

\* MsuBadge.connectedCallback, for a badge with the given attributes.
MsuBadge_connectedCallback(i, variant, color) ==
    /\ observing
    /\ ~badges[i].mounted
    /\ badges' = [badges EXCEPT ![i] =
           [mounted |-> TRUE, variant |-> variant, color |-> color,
            styles |-> GetBadgeStyles(variant, color, IsDarkTheme(dataTheme))]]
    /\ hist' = <<>>
    /\ UNCHANGED cardVars
    /\ UNCHANGED <<storedTheme, dataTheme, observing, records>>
    /\ UNCHANGED <<buttonVars, drawerVars, navVars, footVars>>

\* MsuBadge.attributeChangedCallback, after variant or color was set.
MsuBadge_attributeChangedCallback(i, variant, color) ==
    /\ badges[i].mounted
    /\ badges' = [badges EXCEPT ![i] =
           [mounted |-> TRUE, variant |-> variant, color |-> color,
            styles |-> GetBadgeStyles(variant, color, IsDarkTheme(dataTheme))]]
    /\ hist' = <<>>
    /\ UNCHANGED cardVars
    /\ UNCHANGED <<storedTheme, dataTheme, observing, records>>
    /\ UNCHANGED <<buttonVars, drawerVars, navVars, footVars>>

\* The MutationObserver callback: every queued record names data-theme, and
\* each one re-renders every badge in the document.
ThemeObserverCallback ==
    /\ records > 0
    /\ records' = 0
    /\ badges' = RenderAllBadges(badges, dataTheme)
    /\ UNCHANGED <<storedTheme, dataTheme, observing, hist>>
    /\ UNCHANGED cardVars
    /\ UNCHANGED <<buttonVars, drawerVars, navVars, footVars>>

\* html.setAttribute('data-theme', ...) queues a record once card.js observes.
QueueRecord(n) == IF observing THEN n + 1 ELSE n

\* ------------------------------------------------- navigation.js: links

Href_index == <<"/", "i", "n", "d", "e", "x", ".", "h", "t", "m", "l">>
Href_future == <<"/", "f", "u", "t", "u", "r", "e", ".", "h", "t", "m", "l">>

\* const defaultSiteLinks.
defaultSiteLinks ==
    <<[href |-> Href_index, text |-> "Home"],
      [href |-> Href_future, text |-> "Demo"]>>

\* An attribute holding JSON text is modelled by what the text is: absent,
\* the empty string, text that is not JSON, or the JSON text of a list.
AttrAbsent == [kind |-> "absent", items |-> <<>>]
AttrEmpty == [kind |-> "empty", items |-> <<>>]
AttrMalformed == [kind |-> "malformed", items |-> <<>>]
AttrJson(items) == [kind |-> "json", items |-> items]

\* Truthiness of getAttribute's result: null and '' are falsy.
AttrTruthy(a) == a.kind \in {"malformed", "json"}

\* JSON.parse: the value of JSON text, a SyntaxError for any other text.
JsonParse(a) ==
    IF a.kind = "json" THEN [threw |-> FALSE, value |-> a.items]
    ELSE [threw |-> TRUE, value |-> <<>>]

\* pageLinksAttr ? JSON.parse(pageLinksAttr) : [].
ParsePageLinks(a) ==
    IF AttrTruthy(a) THEN JsonParse(a) ELSE [threw |-> FALSE, value |-> <<>>]

\* A plausible slip: the page's links are put before the site's.
AllLinksPageFirst(pageLinks) == pageLinks \o defaultSiteLinks

\* [...defaultSiteLinks, ...pageLinks].
AllLinks(pageLinks) == defaultSiteLinks \o pageLinks

\* links.map(link => `<li><a href="${link.href}" ...>${link.text}</a></li>`):
\* the anchors of the generated markup, in order.
LinkItems(links) ==
    [i \in 1..Len(links) |-> [href |-> links[i].href, text |-> links[i].text]]

\* ------------------------------------------- navigation.js: theme toggle

\* localStorage.getItem('theme') || 'light'.
SavedOrLight(saved) == IF Truthy(saved) THEN saved.value ELSE "light"

\* A plausible slip: the toggle only ever switches dark mode on.
NewThemeAlwaysDark(currentTheme) == "dark"

\* currentTheme === 'light' ? 'dark' : 'light'.
NewTheme(currentTheme) == IF currentTheme = Some("light") THEN "dark" ELSE "light"

\* A plausible slip: only the desktop control is updated, the drawer control
\* keeps what render wrote.
UpdateThemeButtonsDesktopOnly(theme) ==
    [themeIcon |-> IF theme = "dark" THEN "sunny-outline" ELSE "moon-outline",
     themeText |-> IF theme = "dark" THEN "Light" ELSE "Dark",
     mobileThemeIcon |-> "moon-outline", mobileThemeText |-> <<"Dark", " Mode">>]

\* MsuNavbar.updateThemeButtons(theme).
UpdateThemeButtons(theme) ==
    LET iconName == IF theme = "dark" THEN "sunny-outline" ELSE "moon-outline"
        text == IF theme = "dark" THEN "Light" ELSE "Dark"
    IN  [themeIcon |-> iconName, themeText |-> text,
         mobileThemeIcon |-> iconName, mobileThemeText |-> <<text, " Mode">>]

\* What the flag and the badges look like now.
Snapshot ==
    [dataTheme |-> dataTheme, storedTheme |-> storedTheme,
     styles |-> [i \in 1..MaxBadges |-> badges[i].styles],
     settled |-> records = 0]

\* MsuNavbar.connectedCallback: parse page-links, render, attach the
\* listeners, set up the theme toggle.  A throw from JSON.parse ends it.
MsuNavbar_connectedCallback ==
    /\ navState = "created"
    /\ LET parsed == ParsePageLinks(navAttr)
           links == AllLinks(parsed.value)
           currentTheme == SavedOrLight(storedTheme)
           buttons == UpdateThemeButtons(currentTheme)
       IN  IF parsed.threw
           THEN /\ navState' = "threw"
                /\ UNCHANGED <<navAttr, desktopLinks, mobileLinks, listeners>>
                /\ UNCHANGED <<themeVars, buttonVars>>
           ELSE /\ navState' = "connected"
                /\ desktopLinks' = LinkItems(links)
                /\ mobileLinks' = LinkItems(links)
                /\ listeners' = TRUE
                /\ dataTheme' = Some(currentTheme)
                /\ records' = QueueRecord(records)
                /\ themeIcon' = buttons.themeIcon
                /\ themeText' = buttons.themeText
                /\ mobileThemeIcon' = buttons.mobileThemeIcon
                /\ mobileThemeText' = buttons.mobileThemeText
                /\ UNCHANGED <<navAttr, storedTheme, observing, badges>>
    /\ hist' = <<>>
    /\ UNCHANGED cardVars
    /\ UNCHANGED <<drawerVars, footVars>>

\* toggleTheme, the click listener of both toggle buttons.
ToggleTheme ==
    /\ listeners
    /\ records < MaxRecords
    /\ LET newTheme == NewTheme(dataTheme)
           buttons == UpdateThemeButtons(newTheme)
       IN  /\ dataTheme' = Some(newTheme)
           /\ records' = QueueRecord(records)
           /\ storedTheme' = Some(newTheme)
           /\ themeIcon' = buttons.themeIcon
           /\ themeText' = buttons.themeText
           /\ mobileThemeIcon' = buttons.mobileThemeIcon
           /\ mobileThemeText' = buttons.mobileThemeText
    /\ hist' = IF Len(hist) = 2 THEN <<hist[2], Snapshot>> ELSE Append(hist, Snapshot)
    /\ UNCHANGED cardVars
    /\ UNCHANGED <<observing, badges>>
    /\ UNCHANGED <<drawerVars, navVars, footVars>>

\* A click on #themeToggle.
ClickThemeToggle == ToggleTheme

\* A click on #mobileThemeToggle.
ClickMobileThemeToggle == ToggleTheme

\* ------------------------------------------- navigation.js: mobile drawer

\* MsuNavbar.openMobileMenu; the overlay and the drawer exist once rendered.
openMobileMenu ==
    /\ overlayActive' = TRUE
    /\ menuActive' = TRUE
    /\ bodyOverflow' = "hidden"
    /\ mobileMenuOpen' = TRUE

\* A plausible slip: closing the drawer leaves page scroll suppressed.
closeMobileMenuKeepsScrollLock ==
    /\ overlayActive' = FALSE
    /\ menuActive' = FALSE
    /\ bodyOverflow' = bodyOverflow
    /\ mobileMenuOpen' = FALSE

\* MsuNavbar.closeMobileMenu.
closeMobileMenu ==
    /\ overlayActive' = FALSE
    /\ menuActive' = FALSE
    /\ bodyOverflow' = ""
    /\ mobileMenuOpen' = FALSE

\* A click on #mobileMenuToggle.
ClickMobileMenuToggle ==
    /\ listeners
    /\ openMobileMenu
    /\ hist' = <<>>
    /\ UNCHANGED cardVars
    /\ UNCHANGED <<timers, themeVars, buttonVars, navVars, footVars>>

\* A plausible slip: the close control also clears the pending timers of
\* link clicks.
ClickMobileMenuCloseClearsTimers ==
    /\ listeners
    /\ closeMobileMenu
    /\ timers' = {}
    /\ hist' = <<>>
    /\ UNCHANGED cardVars
    /\ UNCHANGED <<themeVars, buttonVars, navVars, footVars>>

\* A click on #mobileMenuClose.
ClickMobileMenuClose ==
    /\ listeners
    /\ closeMobileMenu
    /\ hist' = <<>>
    /\ UNCHANGED cardVars
    /\ UNCHANGED <<timers, themeVars, buttonVars, navVars, footVars>>

\* A click on #mobileMenuOverlay.
ClickMobileMenuOverlay ==
    /\ listeners
    /\ closeMobileMenu
    /\ hist' = <<>>
    /\ UNCHANGED cardVars
    /\ UNCHANGED <<timers, themeVars, buttonVars, navVars, footVars>>

\* A click on a .mobile-menu-link: setTimeout(() => this.closeMobileMenu(), 150)
\* returns the id of a new timer; nothing keeps the id.
ClickMobileLink ==
    /\ listeners
    /\ mobileLinks # <<>>
    /\ \E t \in 1..MaxTimers :
          /\ t \notin timers
          /\ \A u \in 1..(t - 1) : u \in timers
          /\ timers' = timers \cup {t}
    /\ hist' = <<>>
    /\ UNCHANGED cardVars
    /\ UNCHANGED <<mobileMenuOpen, overlayActive, menuActive, bodyOverflow>>
    /\ UNCHANGED <<themeVars, buttonVars, navVars, footVars>>

\* The timer t of a link click fires.
MobileLinkTimeout(t) ==
    /\ t \in timers
    /\ timers' = timers \ {t}
    /\ closeMobileMenu
    /\ hist' = <<>>
    /\ UNCHANGED cardVars
    /\ UNCHANGED <<themeVars, buttonVars, navVars, footVars>>

\* ------------------------------------------------ navigation.js: footer

Str_hashhome == <<"#", "h", "o", "m", "e">>
Str_indexhtml == <<"i", "n", "d", "e", "x", ".", "h", "t", "m", "l">>

\* The filter of MsuFooter.connectedCallback.
FooterKeeps(link) ==
    ~Includes(link.href, Str_hashhome) /\ link.href # Str_indexhtml

\* MsuFooter.connectedCallback: parse page-links, drop the home links, render.
MsuFooter_connectedCallback ==
    /\ footState = "created"
    /\ LET parsed == ParsePageLinks(footAttr)
           allLinks == SelectSeq(AllLinks(parsed.value), FooterKeeps)
       IN  IF parsed.threw
           THEN /\ footState' = "threw"
                /\ UNCHANGED quickLinks
           ELSE /\ footState' = "connected"
                /\ quickLinks' = LinkItems(allLinks)
    /\ hist' = <<>>
    /\ UNCHANGED cardVars
    /\ UNCHANGED <<footAttr, themeVars, buttonVars, drawerVars, navVars>>

\* ------------------------------------------------- card.js: card element

\* A JSON value: [t, items] with t the kind ("array", "null", "number",
\* "string", "object") and items the elements of an array (the characters
\* of a string, nothing for the other kinds).  An element of a
\* badge list: a string or number (str is its text), null, or an object
\* with optional string members text and color.
JsonArray(items) == [t |-> "array", items |-> items]
JsonString(str) == [t |-> "string", str |-> str, text |-> NoneSeq, color |-> NoneSeq]
JsonObject(text, color) == [t |-> "object", str |-> <<>>, text |-> text, color |-> color]
JsonNullEntry == [t |-> "null", str |-> <<>>, text |-> NoneSeq, color |-> NoneSeq]

\* What JSON.parse gives for 'null', for a number, for a string and for an
\* object that is no array.
JsonNull == [t |-> "null", items |-> <<>>]
JsonNumber == [t |-> "number", items |-> <<>>]
JsonText(chars) == [t |-> "string", items |-> chars]
JsonMap == [t |-> "object", items |-> <<>>]

\* A badge-list attribute: absent, '', text that is not JSON, or JSON text.
CardAttrAbsent == [kind |-> "absent", value |-> JsonArray(<<>>)]
CardAttrEmpty == [kind |-> "empty", value |-> JsonArray(<<>>)]
CardAttrMalformed == [kind |-> "malformed", value |-> JsonArray(<<>>)]
CardAttrJson(value) == [kind |-> "json", value |-> value]

\* JSON.parse(this.getAttribute(name) || '[]'): null and '' give '[]'.
ParseBadgeList(a) ==
    IF a.kind \in {"absent", "empty"} THEN [threw |-> FALSE, value |-> JsonArray(<<>>)]
    ELSE IF a.kind = "json" THEN [threw |-> FALSE, value |-> a.value]
    ELSE [threw |-> TRUE, value |-> JsonArray(<<>>)]

\* let list = []; try { list = JSON.parse(json) } catch (e) { warn }.
BadgeListOrEmpty(a) ==
    IF ParseBadgeList(a).threw THEN JsonArray(<<>>) ELSE ParseBadgeList(a).value

\* A plausible slip: the text interpolated as it is.
escapeHtmlVerbatim(text) == text

\* The text escapeHtml puts for one character: div.textContent = text, then
\* div.innerHTML, which escapes &, < and > of a text node.
EscapeChar(c) ==
    IF c = "&" THEN <<"&", "a", "m", "p", ";">>
    ELSE IF c = "<" THEN <<"&", "l", "t", ";">>
    ELSE IF c = ">" THEN <<"&", "g", "t", ";">>
    ELSE <<c>>

\* MsuCard.escapeHtml(text) for a string.
RECURSIVE escapeHtml(_)
escapeHtml(text) ==
    IF text = <<>> THEN <<>> ELSE EscapeChar(text[1]) \o escapeHtml(Tail(text))

\* value || '' for an optional string member.
OrEmpty(x) == IF TruthySeq(x) THEN x.value ELSE <<>>

\* The msu-badge element the colorBadges.forEach callback adds for an object.
ColorBadgeElement(badge) ==
    LET text == OrEmpty(badge.text)
        color == OrEmpty(badge.color)
    IN  IF color = <<"p", "u", "r", "p", "l", "e">> \/ color = <<"o", "r", "a", "n", "g", "e">>
        THEN [variant |-> Some(color), color |-> NoneSeq, text |-> escapeHtml(text)]
        ELSE IF color # <<>>
        THEN [variant |-> NoneSeq, color |-> Some(color), text |-> escapeHtml(text)]
        ELSE [variant |-> NoneSeq, color |-> NoneSeq, text |-> escapeHtml(text)]

\* The msu-badge element the badges.forEach callback adds for a string.
PlainBadgeElement(entry) ==
    [variant |-> NoneSeq, color |-> NoneSeq, text |-> escapeHtml(entry.str)]

\* value.length > 0: arrays and strings have a length, null throws before
\* this is asked, any other value has none.
LengthPositive(value) == value.t \in {"array", "string"} /\ value.items # <<>>

\* Whether the badges block of render throws a TypeError: .length of null,
\* forEach of a value that is no array, a member read of a null entry.
RenderThrows(colorList, plainList) ==
    \/ colorList.t = "null"
    \/ ~LengthPositive(colorList) /\ plainList.t = "null"
    \/ /\ LengthPositive(colorList) \/ LengthPositive(plainList)
       /\ \/ colorList.t # "array"
          \/ \E i \in 1..Len(colorList.items) : colorList.items[i].t = "null"
          \/ plainList.t # "array"

\* A plausible slip: the two forEach loops in the other order.
BadgeElementsPlainFirst(colorList, plainList) ==
    [i \in 1..Len(plainList.items) |-> PlainBadgeElement(plainList.items[i])]
        \o [i \in 1..Len(colorList.items) |-> ColorBadgeElement(colorList.items[i])]

\* The msu-badge elements of div.card-badges, in order: colored first.
BadgeElements(colorList, plainList) ==
    [i \in 1..Len(colorList.items) |-> ColorBadgeElement(colorList.items[i])]
        \o [i \in 1..Len(plainList.items) |-> PlainBadgeElement(plainList.items[i])]

\* MsuCard.render after the two lists are parsed: the markup assigned to
\* innerHTML, or a throw.
CardMarkup(attrs, colorList, plainList) ==
    LET title == IF TruthySeq(attrs.title) THEN attrs.title.value
                 ELSE <<"U", "n", "t", "i", "t", "l", "e", "d">>
        description == OrEmpty(attrs.description)
    IN  IF RenderThrows(colorList, plainList)
        THEN [threw |-> TRUE, html |-> <<>>]
        ELSE [threw |-> FALSE,
              html |-> <<[cardClass |-> IF attrs.variant = Some("green")
                                        THEN "card card-green" ELSE "card",
                          anchor |-> IF TruthySeq(attrs.href)
                                     THEN Some(escapeHtml(attrs.href.value)) ELSE NoneSeq,
                          icon |-> IF TruthySeq(attrs.icon) THEN attrs.icon ELSE NoneSeq,
                          title |-> escapeHtml(title),
                          description |-> escapeHtml(description),
                          badgesContainer |-> LengthPositive(colorList)
                                                 \/ LengthPositive(plainList),
                          badgeElements |-> BadgeElements(colorList, plainList)]>>]

\* A plausible slip: JSON.parse outside any try block, as in the navbar.
CardRenderNoCatch(attrs) ==
    IF ParseBadgeList(attrs.badges).threw \/ ParseBadgeList(attrs.colorBadges).threw
    THEN [threw |-> TRUE, html |-> <<>>]
    ELSE CardMarkup(attrs, ParseBadgeList(attrs.colorBadges).value,
                    ParseBadgeList(attrs.badges).value)

\* MsuCard.render.
CardRender(attrs) ==
    CardMarkup(attrs, BadgeListOrEmpty(attrs.colorBadges), BadgeListOrEmpty(attrs.badges))

\* MsuCard.connectedCallback.
MsuCard_connectedCallback ==
    /\ cardState = "created"
    /\ LET r == CardRender(cardAttrs)
       IN  /\ cardState' = IF r.threw THEN "threw" ELSE "rendered"
           /\ cardHtml' = IF r.threw THEN cardHtml ELSE r.html
    /\ UNCHANGED <<cardAttrs, hist>>
    /\ UNCHANGED <<themeVars, buttonVars, drawerVars, navVars, footVars>>

\* MsuCard.attributeChangedCallback, after one observed attribute of the
\* inserted card was set to a new value.
MsuCard_attributeChangedCallback(name, value) ==
    /\ cardState # "created"
    /\ cardAttrs' = [cardAttrs EXCEPT ![name] = value]
    /\ LET r == CardRender(cardAttrs')
       IN  /\ cardState' = IF r.threw THEN "threw" ELSE "rendered"
           /\ cardHtml' = IF r.threw THEN cardHtml ELSE r.html
    /\ UNCHANGED hist
    /\ UNCHANGED <<themeVars, buttonVars, drawerVars, navVars, footVars>>

\* ------------------------------------------------------------- inputs

\* Values localStorage may hold under 'theme' when the page loads: nothing,
\* the empty string, the two themes, a string that is no theme.
StoredThemes == {None, Some(""), Some("light"), Some("dark"), Some("blue")}

Href_about == <<"#", "a", "b", "o", "u", "t">>
Href_home == <<"#", "h", "o", "m", "e">>
Href_pagehome == <<"/", "a", ".", "h", "t", "m", "l", "#", "h", "o", "m", "e">>

\* Entries a page may supply.
PageEntries ==
    {[href |-> Href_about, text |-> "About"],
     [href |-> Href_home, text |-> "Top"],
     [href |-> Str_indexhtml, text |-> "Start"],
     [href |-> Href_pagehome, text |-> "Intro"]}

RECURSIVE SeqsUpTo(_, _)
SeqsUpTo(S, n) ==
    IF n = 0 THEN {<<>>}
    ELSE SeqsUpTo(S, n - 1)
            \cup {Append(q, x) : q \in {r \in SeqsUpTo(S, n - 1) : Len(r) = n - 1}, x \in S}

\* Values of a page-links attribute.
PageLinkAttrs ==
    {AttrAbsent, AttrEmpty, AttrMalformed}
        \cup {AttrJson(q) : q \in SeqsUpTo(PageEntries, MaxPageLinks)}

Color_blue == <<"#", "3", "b", "8", "2", "f", "6">>
Color_rgb == <<"r", "g", "b", "(", "2", "5", "5", ",", "0", ",", "0", ")">>
Color_red == <<"r", "e", "d">>
Color_hex3 == <<"#", "f", "f", "f">>
Color_hexUpper == <<"#", "F", "F", "8", "8", "0", "0">>
Color_nothex == <<"#", "z", "z", "z", "z", "z", "z">>
Color_hsl == <<"h", "s", "l", "(", "0", ",", "0", "%", ",", "5", "0", "%", ")">>
Color_rgb2 == <<"r", "g", "b", "(", "1", ",", "2", ")">>
Color_rgba == <<"r", "g", "b", "a", "(", "1", "0", ",", "2", "0", ",", "3", "0", ",",
                "0", ".", "5", ")">>

\* Attribute pairs <<variant, color>> of the badges of a themed page.
PageBadgeAttrs ==
    {<<None, NoneSeq>>, <<Some("purple"), NoneSeq>>, <<Some("orange"), Some(Color_red)>>}

\* Attribute values of a single badge.
BadgeVariants == {None, Some(""), Some("purple"), Some("orange"), Some("green")}
BadgeColors ==
    {NoneSeq, Some(<<>>), Some(Color_blue), Some(Color_rgb), Some(Color_red),
     Some(Color_hex3), Some(Color_hexUpper), Some(Color_nothex), Some(Color_hsl),
     Some(Color_rgb2), Some(Color_rgba)}

Str_purple == <<"p", "u", "r", "p", "l", "e">>
Str_orange == <<"o", "r", "a", "n", "g", "e">>

\* Entries of a card's badges list and of its color-badges list.
PlainBadgeEntries == {JsonString(<<"A">>), JsonString(<<"<", "b", ">">>)}
ColorBadgeEntries ==
    {JsonObject(Some(<<"B", "u", "i", "l", "d">>), Some(Str_purple)),
     JsonObject(Some(<<"X", "&">>), Some(Color_blue)),
     JsonObject(Some(<<"Y">>), NoneSeq),
     JsonObject(Some(<<"Z">>), Some(Str_orange)),
     JsonObject(NoneSeq, Some(<<>>))}

\* Well-formed JSON that is no list of the documented shape: null, a
\* number, a string, an object, an array holding null.
OddListAttrs ==
    {CardAttrJson(JsonNull), CardAttrJson(JsonNumber), CardAttrJson(JsonText(<<"a", "b">>)),
     CardAttrJson(JsonMap), CardAttrJson(JsonArray(<<JsonNullEntry>>))}

\* Values of a card's badges and color-badges attributes.
BadgesAttrs ==
    {CardAttrAbsent, CardAttrEmpty, CardAttrMalformed}
        \cup {CardAttrJson(JsonArray(q)) : q \in SeqsUpTo(PlainBadgeEntries, MaxCardBadges)}
ColorBadgesAttrs ==
    {CardAttrAbsent, CardAttrEmpty, CardAttrMalformed}
        \cup {CardAttrJson(JsonArray(q)) : q \in SeqsUpTo(ColorBadgeEntries, MaxCardBadges)}

\* The same with the values that are well-formed JSON but no list of the
\* documented shape, beside one list of each shape.
AnyBadgesAttrs ==
    {CardAttrAbsent, CardAttrMalformed, CardAttrJson(JsonArray(<<JsonString(<<"A">>)>>))}
        \cup OddListAttrs
AnyColorBadgesAttrs ==
    {CardAttrAbsent, CardAttrMalformed,
     CardAttrJson(JsonArray(<<JsonObject(Some(<<"Y">>), NoneSeq)>>))}
        \cup OddListAttrs

\* Values of a card's title, description, icon and href attributes, some
\* with the characters that are markup in HTML text or end an attribute.
CardTitles == {NoneSeq, Some(<<"T">>), Some(<<"<", "i", ">", "&">>)}
CardDescriptions == {NoneSeq, Some(<<"a", "<", "b">>)}
CardIcons == {NoneSeq, Some(<<"x", "\"", ">", "<", "b">>)}
CardHrefs == {NoneSeq, Some(<<"/", "a", "?", "b", "&", "c">>), Some(<<"\"", ">", "<", "x">>)}
TextBadgesAttrs ==
    {CardAttrAbsent, CardAttrJson(JsonArray(<<JsonString(<<"<", "b", ">">>)>>))}
TextColorBadgesAttrs ==
    {CardAttrAbsent,
     CardAttrJson(JsonArray(<<JsonObject(Some(<<"X", "&">>), Some(Color_red))>>))}

\* A card with a title and nothing else.
PlainCardAttrs ==
    [title |-> Some(<<"T">>), description |-> NoneSeq, variant |-> None,
     icon |-> NoneSeq, href |-> NoneSeq,
     badges |-> CardAttrAbsent, colorBadges |-> CardAttrAbsent]

\* ------------------------------------------------------ specifications

\* The page before any script has run and before any element is connected.
InitPage ==
    /\ dataTheme = None
    /\ observing = FALSE
    /\ records = 0
    /\ badges = [i \in 1..MaxBadges |-> UnmountedBadge]
    /\ navState = "created"
    /\ desktopLinks = <<>>
    /\ mobileLinks = <<>>
    /\ listeners = FALSE
    /\ themeIcon = ""
    /\ themeText = ""
    /\ mobileThemeIcon = ""
    /\ mobileThemeText = <<>>
    /\ mobileMenuOpen = FALSE
    /\ overlayActive = FALSE
    /\ menuActive = FALSE
    /\ bodyOverflow = ""
    /\ timers = {}
    /\ footState = "created"
    /\ quickLinks = <<>>
    /\ cardState = "created"
    /\ cardHtml = <<>>
    /\ hist = <<>>

\* Theme flag, toggles, badges and the observer.
Init ==
    /\ InitPage
    /\ storedTheme \in StoredThemes
    /\ navAttr \in {AttrAbsent, AttrMalformed}
    /\ footAttr = AttrAbsent
    /\ cardAttrs = PlainCardAttrs

Next ==
    \/ LoadCardScript
    \/ MsuNavbar_connectedCallback
    \/ ClickThemeToggle
    \/ ClickMobileThemeToggle
    \/ \E i \in 1..MaxBadges, a \in PageBadgeAttrs : MsuBadge_connectedCallback(i, a[1], a[2])
    \/ \E i \in 1..MaxBadges, a \in PageBadgeAttrs : MsuBadge_attributeChangedCallback(i, a[1], a[2])
    \/ ThemeObserverCallback

Spec == Init /\ [][Next]_vars

\* The observer callback is a microtask: once queued it runs.
FairSpec == Spec /\ WF_vars(ThemeObserverCallback)

\* Navbar and footer links, and the mobile drawer.
NavInit ==
    /\ InitPage
    /\ storedTheme \in {None, Some("dark")}
    /\ navAttr \in PageLinkAttrs
    /\ footAttr \in PageLinkAttrs
    /\ cardAttrs = PlainCardAttrs

NavNext ==
    \/ MsuNavbar_connectedCallback
    \/ MsuFooter_connectedCallback
    \/ ClickMobileMenuToggle
    \/ ClickMobileMenuClose
    \/ ClickMobileMenuOverlay
    \/ ClickMobileLink
    \/ \E t \in 1..MaxTimers : MobileLinkTimeout(t)

NavSpec == NavInit /\ [][NavNext]_vars

\* The mobile drawer of a navbar, with the timers of link clicks.
DrawerInit ==
    /\ InitPage
    /\ storedTheme = None
    /\ navAttr \in PageLinkAttrs
    /\ footAttr = AttrAbsent
    /\ cardAttrs = PlainCardAttrs

DrawerNext ==
    \/ MsuNavbar_connectedCallback
    \/ ClickMobileMenuToggle
    \/ ClickMobileMenuClose
    \/ ClickMobileMenuOverlay
    \/ ClickMobileLink
    \/ \E t \in 1..MaxTimers : MobileLinkTimeout(t)

\* A timer that was set fires once its delay has passed.
DrawerFairSpec ==
    /\ DrawerInit
    /\ [][DrawerNext]_vars
    /\ \A t \in 1..MaxTimers : WF_vars(MobileLinkTimeout(t))

\* One badge with any attribute values, under every value of the flag.
BadgeInit ==
    /\ InitPage
    /\ storedTheme \in StoredThemes
    /\ navAttr = AttrAbsent
    /\ footAttr = AttrAbsent
    /\ cardAttrs = PlainCardAttrs

BadgeNext ==
    \/ LoadCardScript
    \/ MsuNavbar_connectedCallback
    \/ ClickThemeToggle
    \/ ThemeObserverCallback
    \/ \E v \in BadgeVariants, c \in BadgeColors : MsuBadge_connectedCallback(1, v, c)
    \/ \E v \in BadgeVariants, c \in BadgeColors : MsuBadge_attributeChangedCallback(1, v, c)

BadgeSpec == BadgeInit /\ [][BadgeNext]_vars

\* A card whose two badge lists take every value.
CardInit ==
    /\ InitPage
    /\ storedTheme = None
    /\ navAttr = AttrAbsent
    /\ footAttr = AttrAbsent
    /\ \E b \in BadgesAttrs, c \in ColorBadgesAttrs :
          cardAttrs = [PlainCardAttrs EXCEPT !.badges = b, !.colorBadges = c]

CardNext ==
    \/ MsuCard_connectedCallback
    \/ \E b \in BadgesAttrs : MsuCard_attributeChangedCallback("badges", b)
    \/ \E c \in ColorBadgesAttrs : MsuCard_attributeChangedCallback("colorBadges", c)

CardSpec == CardInit /\ [][CardNext]_vars

\* A card whose texts take every value.
TextCardInit ==
    /\ InitPage
    /\ storedTheme = None
    /\ navAttr = AttrAbsent
    /\ footAttr = AttrAbsent
    /\ \E t \in CardTitles, d \in CardDescriptions, i \in CardIcons, h \in CardHrefs,
          b \in TextBadgesAttrs, c \in TextColorBadgesAttrs :
          cardAttrs = [title |-> t, description |-> d, variant |-> None, icon |-> i,
                       href |-> h, badges |-> b, colorBadges |-> c]

TextCardNext ==
    \/ MsuCard_connectedCallback
    \/ \E t \in CardTitles : MsuCard_attributeChangedCallback("title", t)
    \/ \E d \in CardDescriptions : MsuCard_attributeChangedCallback("description", d)
    \/ \E i \in CardIcons : MsuCard_attributeChangedCallback("icon", i)
    \/ \E h \in CardHrefs : MsuCard_attributeChangedCallback("href", h)
    \/ \E b \in TextBadgesAttrs : MsuCard_attributeChangedCallback("badges", b)
    \/ \E c \in TextColorBadgesAttrs : MsuCard_attributeChangedCallback("colorBadges", c)

TextCardSpec == TextCardInit /\ [][TextCardNext]_vars

\* A card whose two badge lists hold any JSON text.
AnyCardInit ==
    /\ InitPage
    /\ storedTheme = None
    /\ navAttr = AttrAbsent
    /\ footAttr = AttrAbsent
    /\ \E b \in AnyBadgesAttrs, c \in AnyColorBadgesAttrs :
          cardAttrs = [PlainCardAttrs EXCEPT !.badges = b, !.colorBadges = c]

AnyCardNext ==
    \/ MsuCard_connectedCallback
    \/ \E b \in AnyBadgesAttrs : MsuCard_attributeChangedCallback("badges", b)
    \/ \E c \in AnyColorBadgesAttrs : MsuCard_attributeChangedCallback("colorBadges", c)

AnyCardSpec == AnyCardInit /\ [][AnyCardNext]_vars

\* ------------------------------------------------------------- claims

\* The badge styles the flag calls for now.
FreshStyles(b) == GetBadgeStyles(b.variant, b.color, dataTheme = Some("dark"))

\* The data-theme attribute before the last toggle click.
BeforeLastToggle == hist[Len(hist)].dataTheme

\* C1 as stated: a toggle click turns 'light' into 'dark' and 'dark' into
\* 'light' and leaves the persisted value equal to the attribute; after
\* navbar insertion and any clicks the attribute equals the persisted value.
C1_AttributeEqualsPersisted ==
    /\ hist # <<>> =>
          /\ BeforeLastToggle = Some("light") => dataTheme = Some("dark")
          /\ BeforeLastToggle = Some("dark") => dataTheme = Some("light")
          /\ storedTheme = dataTheme
    /\ navState = "connected" => storedTheme = dataTheme

\* C1 amended: a toggle click turns 'light' into 'dark' and 'dark' into
\* 'light' and leaves the persisted value equal to the attribute; after
\* navbar insertion and any clicks the attribute equals the persisted value
\* whenever a non-empty value is persisted, and is 'light' when nothing or
\* the empty string is persisted.
C1_ToggleFlipsAndPersists ==
    /\ hist # <<>> =>
          /\ BeforeLastToggle = Some("light") => dataTheme = Some("dark")
          /\ BeforeLastToggle = Some("dark") => dataTheme = Some("light")
          /\ storedTheme = dataTheme
    /\ navState = "connected" =>
          IF storedTheme.present /\ storedTheme.value # ""
          THEN dataTheme = storedTheme
          ELSE dataTheme = Some("light")

\* C1 witness: a click has just turned a dark page light.
C1_Witness ==
    /\ hist # <<>>
    /\ BeforeLastToggle = Some("dark")
    /\ dataTheme = Some("light")
    /\ storedTheme = Some("light")

\* C2: once the navbar has applied the flag, the data-theme attribute is
\* 'light' or 'dark', whatever was persisted.
C2_AppliedThemeIsLightOrDark ==
    navState = "connected" => dataTheme \in {Some("light"), Some("dark")}

\* C3: after two consecutive toggles, and once the observer has run, the
\* data-theme attribute, the persisted flag (nothing persisted reading as
\* 'light') and every badge's rendered style are what they were before.
C3_TwoTogglesRoundTrip ==
    (Len(hist) = 2 /\ hist[1].settled /\ records = 0) =>
        /\ dataTheme = hist[1].dataTheme
        /\ (IF storedTheme.present /\ storedTheme.value # ""
            THEN storedTheme.value ELSE "light")
           = (IF hist[1].storedTheme.present /\ hist[1].storedTheme.value # ""
              THEN hist[1].storedTheme.value ELSE "light")
        /\ \A i \in 1..MaxBadges : badges[i].styles = hist[1].styles[i]

\* C4: whenever no mutation record is waiting for the observer, every
\* mounted badge shows the style of the current flag; and every queued
\* record is followed by the observer callback.
C4_BadgesFollowTheme ==
    /\ [](records = 0 =>
            \A i \in 1..MaxBadges :
                badges[i].mounted => badges[i].styles = FreshStyles(badges[i]))
    /\ (records > 0 ~> records = 0)

\* C4 witness: a toggle made the page dark, the observer has run, and a
\* mounted default badge shows the dark default style.
C4_Witness ==
    /\ hist # <<>>
    /\ records = 0
    /\ dataTheme = Some("dark")
    /\ \E i \in 1..MaxBadges :
          /\ badges[i].mounted
          /\ badges[i].variant = None /\ badges[i].color = NoneSeq
          /\ badges[i].styles.background = <<"#1a2622">>
          /\ badges[i].styles.color = <<"#4ade80">>

\* The style the stated precedence gives a badge: a color attribute that
\* counts selects the custom-color path, else variant purple or orange
\* selects that preset, else the default green path; dark is the dark set.
StatedStyles(b, colorCounts, dark) ==
    IF colorCounts THEN GetCustomColorStyles(b.color.value, dark)
    ELSE IF b.variant = Some("purple") THEN PurpleStyles(dark)
    ELSE IF b.variant = Some("orange") THEN OrangeStyles(dark)
    ELSE IF dark
    THEN [backgroundProp |-> "background-color", background |-> <<"#1a2622">>,
          color |-> <<"#4ade80">>, border |-> <<"none">>]
    ELSE [backgroundProp |-> "background-color", background |-> <<"#dcfce7">>,
          color |-> <<"#1a9659">>, border |-> <<"none">>]

\* C5 as stated: a badge's rendered style follows the precedence with every
\* present color attribute selecting the custom-color path.
C5_PresentColorSelectsCustomPath ==
    (badges[1].mounted /\ records = 0) =>
        badges[1].styles =
            StatedStyles(badges[1], badges[1].color.present, dataTheme = Some("dark"))

\* C5 amended: a badge's rendered style follows the precedence with a
\* present, non-empty color attribute selecting the custom-color path
\* whatever the variant is; an empty color attribute counts as absent.
C5_RenderPathPrecedence ==
    (badges[1].mounted /\ records = 0) =>
        badges[1].styles =
            StatedStyles(badges[1],
                         badges[1].color.present /\ badges[1].color.value # <<>>,
                         dataTheme = Some("dark"))

\* C5 witness: a badge with variant purple and a color, rendered on a dark
\* page, shows the custom-color dark style.
C5_Witness ==
    /\ badges[1].mounted
    /\ records = 0
    /\ dataTheme = Some("dark")
    /\ badges[1].variant = Some("purple")
    /\ badges[1].color = Some(Color_blue)
    /\ badges[1].styles.color = <<"#ffffff">>
    /\ badges[1].styles.border =
          <<"1px solid ", "rgba(", "5", "9", ", ", "1", "3", "0", ", ",
            "2", "4", "6", ", ", "0.1", ")">>

\* The page-supplied list of an element: the entries of its page-links.
PageSupplied(attr) == IF attr.kind = "json" THEN attr.items ELSE <<>>

\* C6: a connected navbar's desktop list and drawer list are both the
\* site-wide list followed by the page-supplied list, in order, with the
\* same href and text.
C6_NavbarListsAreSiteThenPage ==
    navState = "connected" =>
        LET L == defaultSiteLinks \o PageSupplied(navAttr)
        IN  /\ Len(desktopLinks) = Len(L)
            /\ Len(mobileLinks) = Len(L)
            /\ \A i \in 1..Len(L) :
                  /\ desktopLinks[i].href = L[i].href
                  /\ desktopLinks[i].text = L[i].text
                  /\ mobileLinks[i].href = L[i].href
                  /\ mobileLinks[i].text = L[i].text

\* C6 witness: a navbar given two different page links shows four links.
C6_Witness ==
    /\ navState = "connected"
    /\ Len(navAttr.items) = 2
    /\ navAttr.items[1] # navAttr.items[2]
    /\ Len(desktopLinks) = 4
    /\ desktopLinks[3].text = navAttr.items[1].text
    /\ mobileLinks[4].text = navAttr.items[2].text

\* An href that denotes the home page: the site's home page, or a #home
\* anchor.
DenotesHome(href) ==
    \/ href = Href_index
    \/ href = Str_indexhtml
    \/ Includes(href, Str_hashhome)

\* C7: a connected footer's quick links are the site-wide list followed by
\* the page-supplied list without the entries whose href denotes the home
\* page; the site-wide Home entry is not among them.
C7_FooterOmitsHome ==
    footState = "connected" =>
        LET L == defaultSiteLinks \o PageSupplied(footAttr)
            kept == SelectSeq(L, LAMBDA e : ~DenotesHome(e.href))
        IN  /\ Len(quickLinks) = Len(kept)
            /\ \A i \in 1..Len(quickLinks) :
                  /\ quickLinks[i].href = kept[i].href
                  /\ quickLinks[i].text = kept[i].text
            /\ \A i \in 1..Len(quickLinks) : quickLinks[i].text # "Home"

\* C8: page scroll is suppressed exactly when the drawer is open, the
\* drawer's flag, overlay and panel agree, a click on the open control
\* leaves the drawer open, and a click on the close control or the overlay
\* leaves it closed.
C8_ScrollLockedIffDrawerOpen ==
    /\ []((bodyOverflow = "hidden") <=> mobileMenuOpen)
    /\ [](mobileMenuOpen <=> (overlayActive /\ menuActive))
    /\ [](mobileMenuOpen <=> (overlayActive \/ menuActive))
    /\ [][ClickMobileMenuToggle => mobileMenuOpen']_vars
    /\ [][(ClickMobileMenuClose \/ ClickMobileMenuOverlay) => ~mobileMenuOpen']_vars

\* C8 witness: the drawer is open with scroll suppressed while a delayed
\* close is pending.
C8_Witness ==
    /\ mobileMenuOpen /\ overlayActive /\ menuActive
    /\ bodyOverflow = "hidden"
    /\ timers # {}

\* C10: a navbar or footer whose page-links is malformed JSON completes its
\* insertion with the site-wide links, the navbar with its listeners.
C10_MalformedPageLinksRecovered ==
    /\ (navAttr = AttrMalformed /\ navState # "created") =>
          /\ navState = "connected"
          /\ listeners
          /\ Len(desktopLinks) = Len(defaultSiteLinks)
          /\ Len(mobileLinks) = Len(defaultSiteLinks)
    /\ (footAttr = AttrMalformed /\ footState # "created") =>
          /\ footState = "connected"
          /\ quickLinks # <<>>

\* The entries of a badge list that is absent, empty or a JSON array.
ListEntries(a) == IF a.kind = "json" THEN a.value.items ELSE <<>>

\* A list attribute that is absent, empty, or a JSON array of the
\* documented shape (strings for badges, {text, color} for color-badges).
ListOfShape(a, shape) ==
    \/ a.kind \in {"absent", "empty"}
    \/ /\ a.kind = "json"
       /\ a.value.t = "array"
       /\ \A i \in 1..Len(a.value.items) : a.value.items[i].t = shape

\* C9: after a render of a card whose badges (or color-badges) attribute is
\* malformed JSON, the render has completed, that list gave no badge, and
\* the other list (malformed too, or of the documented shape) is rendered in
\* full, in order.
C9_MalformedListIsEmpty ==
    cardState # "created" =>
        /\ (cardAttrs.badges = CardAttrMalformed
               /\ (cardAttrs.colorBadges = CardAttrMalformed
                      \/ ListOfShape(cardAttrs.colorBadges, "object"))) =>
              /\ cardState = "rendered"
              /\ LET other == ListEntries(cardAttrs.colorBadges)
                     els == cardHtml[1].badgeElements
                 IN  /\ Len(els) = Len(other)
                     /\ \A i \in 1..Len(other) :
                           els[i].text = escapeHtml(OrEmpty(other[i].text))
        /\ (cardAttrs.colorBadges = CardAttrMalformed
               /\ (cardAttrs.badges = CardAttrMalformed
                      \/ ListOfShape(cardAttrs.badges, "string"))) =>
              /\ cardState = "rendered"
              /\ LET other == ListEntries(cardAttrs.badges)
                     els == cardHtml[1].badgeElements
                 IN  /\ Len(els) = Len(other)
                     /\ \A i \in 1..Len(other) :
                           els[i].text = escapeHtml(other[i].str)
                           /\ els[i].variant = NoneSeq /\ els[i].color = NoneSeq

\* C9 witness: malformed badges beside two colored badges renders the two.
C9_Witness ==
    /\ cardState = "rendered"
    /\ cardAttrs.badges = CardAttrMalformed
    /\ Len(ListEntries(cardAttrs.colorBadges)) = 2
    /\ Len(cardHtml[1].badgeElements) = 2

\* C11: a card never throws, whatever its badges and color-badges attributes
\* hold (well-formed JSON that is no array included): once a render was
\* asked for, the render has completed.
C11_RenderNeverThrows == cardState # "created" => cardState = "rendered"

\* The badge element the stated rules give for one color-badges entry.
StatedColorBadge(entry) ==
    LET color == IF entry.color.present THEN entry.color.value ELSE <<>>
        text == escapeHtml(IF entry.text.present THEN entry.text.value ELSE <<>>)
    IN  IF color \in {Str_purple, Str_orange}
        THEN [variant |-> Some(color), color |-> NoneSeq, text |-> text]
        ELSE IF color # <<>>
        THEN [variant |-> NoneSeq, color |-> Some(color), text |-> text]
        ELSE [variant |-> NoneSeq, color |-> NoneSeq, text |-> text]

\* C12: after every render of a card whose lists are C (color-badges) and B
\* (badges), the card holds one badges block of exactly |C| + |B| badge
\* elements: the entries of C in order (variant only for 'purple' and
\* 'orange', color only for another non-empty color, neither for an empty or
\* absent color), then the entries of B in order as default badges; no badge
\* carries both a variant and a color.
C12_BadgeCountAndOrder ==
    (cardState # "created"
        /\ ListOfShape(cardAttrs.colorBadges, "object")
        /\ ListOfShape(cardAttrs.badges, "string")) =>
       /\ cardState = "rendered"
       /\ Len(cardHtml) = 1
       /\ LET C == ListEntries(cardAttrs.colorBadges)
              B == ListEntries(cardAttrs.badges)
              els == cardHtml[1].badgeElements
          IN  /\ Len(els) = Len(C) + Len(B)
              /\ \A i \in 1..Len(C) : els[i] = StatedColorBadge(C[i])
              /\ \A j \in 1..Len(B) :
                    els[Len(C) + j] = [variant |-> NoneSeq, color |-> NoneSeq,
                                       text |-> escapeHtml(B[j].str)]
              /\ \A k \in 1..Len(els) : ~(els[k].variant.present /\ els[k].color.present)

\* C12 witness: a variant badge and a custom-color badge come before a
\* default badge.
C12_Witness ==
    /\ cardState = "rendered"
    /\ Len(ListEntries(cardAttrs.colorBadges)) = 2
    /\ Len(ListEntries(cardAttrs.badges)) >= 1
    /\ Len(cardHtml[1].badgeElements) = 2 + Len(ListEntries(cardAttrs.badges))
    /\ cardHtml[1].badgeElements[1].variant = Some(Str_purple)
    /\ cardHtml[1].badgeElements[2].color = Some(Color_blue)
    /\ cardHtml[1].badgeElements[3].text = <<"A">>

Entity_amp == <<"&", "a", "m", "p", ";">>
Entity_lt == <<"&", "l", "t", ";">>
Entity_gt == <<"&", "g", "t", ";">>

\* The text an HTML parser reads from escaped text.
RECURSIVE Decode(_)
Decode(s) ==
    IF s = <<>> THEN <<>>
    ELSE IF StartsWith(s, Entity_amp) THEN <<"&">> \o Decode(SubSeq(s, 6, Len(s)))
    ELSE IF StartsWith(s, Entity_lt) THEN <<"<">> \o Decode(SubSeq(s, 5, Len(s)))
    ELSE IF StartsWith(s, Entity_gt) THEN <<">">> \o Decode(SubSeq(s, 5, Len(s)))
    ELSE <<s[1]>> \o Decode(Tail(s))

\* out is the HTML-escaped form of text: it holds no '<' and no '>', each
\* '&' in it starts an entity, and it reads back as text.
IsEscapedFormOf(out, text) ==
    /\ \A i \in 1..Len(out) :
          /\ out[i] \notin {"<", ">"}
          /\ out[i] = "&" =>
                \E e \in {Entity_amp, Entity_lt, Entity_gt} :
                    StartsWith(SubSeq(out, i, Len(out)), e)
    /\ Decode(out) = text

\* The title, the description and every badge text of the rendered card are
\* the escaped forms of the configured strings.
TextsAreEscaped ==
    LET card == cardHtml[1]
        C == ListEntries(cardAttrs.colorBadges)
        B == ListEntries(cardAttrs.badges)
    IN  /\ IsEscapedFormOf(card.title, IF TruthySeq(cardAttrs.title)
                                       THEN cardAttrs.title.value
                                       ELSE <<"U", "n", "t", "i", "t", "l", "e", "d">>)
        /\ IsEscapedFormOf(card.description, OrEmpty(cardAttrs.description))
        /\ Len(card.badgeElements) = Len(C) + Len(B)
        /\ \A i \in 1..Len(C) :
              IsEscapedFormOf(card.badgeElements[i].text, OrEmpty(C[i].text))
        /\ \A j \in 1..Len(B) :
              IsEscapedFormOf(card.badgeElements[Len(C) + j].text, B[j].str)

\* C13 as stated: in every card render the title, the description and every
\* badge text are HTML-escaped, and the icon and the href are inserted as
\* they are.
C13_TextsEscapedIconHrefVerbatim ==
    cardState = "rendered" =>
        /\ TextsAreEscaped
        /\ TruthySeq(cardAttrs.icon) => cardHtml[1].icon = cardAttrs.icon
        /\ TruthySeq(cardAttrs.href) => cardHtml[1].anchor = cardAttrs.href

\* C13: in every card render the title, the description, every badge text
\* and the href are HTML-escaped ('&', '<' and '>' become entities, a double
\* quote stays), and only the icon is inserted as it is.
C13_TextsAndHrefEscapedIconVerbatim ==
    cardState = "rendered" =>
        /\ TextsAreEscaped
        /\ TruthySeq(cardAttrs.icon) => cardHtml[1].icon = cardAttrs.icon
        /\ TruthySeq(cardAttrs.href) =>
              /\ cardHtml[1].anchor.present
              /\ IsEscapedFormOf(cardHtml[1].anchor.value, cardAttrs.href.value)
              /\ \A i \in 1..Len(cardAttrs.href.value) :
                    cardAttrs.href.value[i] = "\"" =>
                        Includes(cardHtml[1].anchor.value, <<"\"">>)

\* C13 witness: a rendered card whose title, icon, href and badge texts hold
\* markup characters.
C13_Witness ==
    /\ cardState = "rendered"
    /\ cardAttrs.title = Some(<<"<", "i", ">", "&">>)
    /\ cardAttrs.href = Some(<<"/", "a", "?", "b", "&", "c">>)
    /\ cardHtml[1].anchor = Some(<<"/", "a", "?", "b", "&", "a", "m", "p", ";", "c">>)
    /\ cardHtml[1].icon = Some(<<"x", "\"", ">", "<", "b">>)
    /\ Len(cardHtml[1].badgeElements) = 2

\* A '#rrggbb' literal: '#' and six hex digits.
IsHexLiteral(color) ==
    /\ Len(color) = 7
    /\ color[1] = "#"
    /\ \A i \in 2..7 : IsHexDigit(color[i])

\* The rgba text of three channel texts and an alpha.
Rgba(r, g, b, alpha) ==
    <<"rgba(">> \o r \o <<", ">> \o g \o <<", ">> \o b \o <<", ", alpha, ")">>

\* The stated reference for addAlpha: a '#rrggbb' literal and an rgb()/rgba()
\* text with three numbers give rgba of the same channels; any other input
\* is returned unchanged.
ReferenceAddAlpha(color, alpha) ==
    IF IsHexLiteral(color)
    THEN Rgba(NatToString(16 * HexValue(color[2]) + HexValue(color[3])),
              NatToString(16 * HexValue(color[4]) + HexValue(color[5])),
              NatToString(16 * HexValue(color[6]) + HexValue(color[7])), alpha)
    ELSE IF StartsWith(color, <<"r", "g", "b">>) /\ Len(DigitRuns(color, <<>>, <<>>)) >= 3
    THEN LET n == DigitRuns(color, <<>>, <<>>) IN Rgba(n[1], n[2], n[3], alpha)
    ELSE color

\* C14: addAlpha agrees with the reference for every color and alpha: the
\* custom-color style of a freshly styled badge holds, for each alpha it asks
\* for, what the reference gives ('#rrggbb' and rgb()/rgba() become rgba with
\* the same channels, any other color text is kept unchanged).
C14_AddAlphaAgreesWithReference ==
    (badges[1].mounted /\ records = 0 /\ TruthySeq(badges[1].color)) =>
        LET color == badges[1].color.value
            styles == badges[1].styles
        IN  IF dataTheme = Some("dark")
            THEN /\ styles.background =
                       <<"linear-gradient(90deg, ">> \o ReferenceAddAlpha(color, "0.3")
                           \o <<", ">> \o ReferenceAddAlpha(color, "0.2") \o <<")">>
                 /\ styles.border = <<"1px solid ">> \o ReferenceAddAlpha(color, "0.1")
            ELSE /\ styles.background = ReferenceAddAlpha(color, "0.1")
                 /\ styles.border = <<"1px solid ">> \o ReferenceAddAlpha(color, "0.2")

\* C15: once the navbar is inserted, and after any clicks on either theme
\* toggle, both toggle controls show the current flag and agree: under flag
\* 'dark' the sunny icon and the label 'Light', under any other flag the moon
\* icon and the label 'Dark'; the drawer label ends in ' Mode'.
C15_ToggleControlsReflectFlag ==
    navState = "connected" =>
        IF dataTheme = Some("dark")
        THEN /\ themeIcon = "sunny-outline" /\ mobileThemeIcon = "sunny-outline"
             /\ themeText = "Light" /\ mobileThemeText = <<"Light", " Mode">>
        ELSE /\ themeIcon = "moon-outline" /\ mobileThemeIcon = "moon-outline"
             /\ themeText = "Dark" /\ mobileThemeText = <<"Dark", " Mode">>

\* C15 witness: two toggle clicks after insertion ended on a dark page, and
\* both controls offer the light theme.
C15_Witness ==
    /\ navState = "connected"
    /\ Len(hist) = 2
    /\ dataTheme = Some("dark")
    /\ themeIcon = "sunny-outline"
    /\ mobileThemeIcon = "sunny-outline"
    /\ mobileThemeText = <<"Light", " Mode">>

\* C16: a click on a drawer link schedules a delayed close that nothing
\* cancels: the click adds a pending timer, no click on the open control, the
\* close control or the overlay removes one, every pending timer eventually
\* fires, and the step that removes a timer leaves the drawer closed and page
\* scroll restored, whatever was opened or closed in between.
C16_DelayedCloseFiresAndCloses ==
    /\ [][ClickMobileLink => (timers \subseteq timers' /\ timers' # timers)]_vars
    /\ [][(ClickMobileMenuToggle \/ ClickMobileMenuClose \/ ClickMobileMenuOverlay)
              => timers' = timers]_vars
    /\ \A t \in 1..MaxTimers : (t \in timers) ~> (t \notin timers)
    /\ [][\A t \in 1..MaxTimers :
              (t \in timers /\ t \notin timers') =>
                  /\ ~mobileMenuOpen' /\ ~overlayActive' /\ ~menuActive'
                  /\ bodyOverflow' = ""]_vars

\* C16 witness: every timer is pending and the drawer is open, so a close is
\* due on an open drawer.
C16_Witness ==
    /\ timers = 1..MaxTimers
    /\ mobileMenuOpen
    /\ bodyOverflow = "hidden"
    /\ navState = "connected"

====
